---- MODULE Spec2Model ----
(***************************************************************************)
(* Model of src/src/maskEditor.tsx: the MaskEditor React component.        *)
(*                                                                         *)
(* Three canvases (base, mask, cursor) take their width/height from the    *)
(* `size` state.  A state holds the component after a render has been      *)
(* committed and its effects have run; every action is one DOM event,      *)
(* image completion or prop change together with the re-render and the     *)
(* effects it triggers.                                                    *)
(*                                                                         *)
(* Canvas semantics used by the model (HTML canvas 2D):                    *)
(*   - setting a canvas' width/height attribute to a new value clears it   *)
(*     to transparent black; React only touches the attribute when its     *)
(*     value changes;                                                      *)
(*   - fill() of an opaque colour overwrites the covered pixels (the       *)
(*     rasterisation is idealised: no anti-aliasing, a pixel is covered    *)
(*     iff its coordinates lie in the closed disc);                        *)
(*   - arc() with a negative radius throws IndexSizeError, with radius 0   *)
(*     it encloses no area;                                                *)
(*   - putImageData may or may not keep the colour of fully transparent    *)
(*     pixels (premultiplied backing store).                               *)
(*                                                                         *)
(* A pixel is <<r, g, b, a>>; a raster's data is the row-major sequence of *)
(* its pixels (imageData.data taken four bytes at a time).                 *)
(***************************************************************************)
EXTENDS Integers, Sequences, FiniteSets, TLC

VARIABLES
    size,         \* the `size` state {x, y}
    baseLayer,    \* base canvas: [w, h, img]  (img = 0: transparent)
    maskLayer,    \* mask canvas: [w, h, data]
    cursorLayer,  \* cursor canvas: [w, h, shown, r]  (a preview of radius r)
    cursorSize,   \* the cursorSize prop after defaulting
    maskColor,    \* the maskColor prop after defaulting
    src,          \* the src prop: the image it names
    inflight,     \* images whose load has been started and not yet settled
    hasObserver,  \* props.onCursorSizeChange is supplied
    pinned,       \* the owner ignores size-change notifications
    painted,      \* history: pixels whose last write was a primary, unshifted paint
    lastLoaded,   \* history: dimensions of the last completed load
    lastOp        \* history: the event handled last

vars == <<size, baseLayer, maskLayer, cursorLayer, cursorSize, maskColor, src,
          inflight, hasObserver, pinned, painted, lastLoaded, lastOp>>

\* ------------------------------------------------------------------ bounds
MaxRadius == 2

\* --------------------------------------------------------------- constants
\* the default size {x: 256, y: 256}, scaled down
DefaultSize == [x |-> 2, y |-> 2]

\* hex colours as their six hexadecimal digits
DefaultMaskColor == <<2, 3, 2, 7, 2, 13>>      \* "#23272d"
Red == <<15, 15, 0, 0, 0, 0>>                   \* "#ff0000"
WhiteHex == <<15, 15, 15, 15, 15, 15>>          \* "#ffffff"
Colors == {DefaultMaskColor, Red, WhiteHex}

\* the images a src can name: id -> decoded dimensions
Images == {1, 2}
ImgSize(i) == IF i = 1 THEN [x |-> 2, y |-> 2] ELSE [x |-> 3, y |-> 1]

\* <<MouseEvent.buttons, shiftKey>> (buttons: 1 primary, 2 secondary, 4 auxiliary)
PointerInputs == {<<0, FALSE>>, <<1, FALSE>>, <<1, TRUE>>, <<2, FALSE>>, <<4, FALSE>>}
Deltas == {-3, 0, 1, 3}   \* values of WheelEvent.deltaY
\* values of the cursorSize prop (the default, 10, lies beyond MaxRadius)
InitialRadii == {-1, 0, 1, 2}

\* ------------------------------------------------------------------ pixels
White == <<255, 255, 255>>
WhitePx == <<255, 255, 255, 255>>
Transparent == <<0, 0, 0, 0>>
Rgb(p) == <<p[1], p[2], p[3]>>

hexToRgb(hex) ==
    <<hex[1] * 16 + hex[2], hex[3] * 16 + hex[4], hex[5] * 16 + hex[6]>>

\* coordinates of the i-th pixel of the data sequence of a raster of width w
PxX(i, w) == (i - 1) % w
PxY(i, w) == (i - 1) \div w

Max(a, b) == IF a > b THEN a ELSE b

\* pixel (x, y) is covered by arc(cx, cy, r, 0, 2*PI) + fill()
InDisc(x, y, cx, cy, r) ==
    r > 0 /\ (x - cx) * (x - cx) + (y - cy) * (y - cy) <= r * r

\* indices of the pixels of a w x h raster covered by the arc
DiscIdx(w, h, cx, cy, r) ==
    {i \in 1..(w * h) : InDisc(PxX(i, w), PxY(i, w), cx, cy, r)}

\* ctx.fillStyle = rgb; ctx.arc(cx, cy, r, 0, 2*PI); ctx.fill()
FillArc(layer, cx, cy, r, rgb) ==
    [layer EXCEPT !.data =
        [i \in 1..Len(layer.data) |->
            IF InDisc(PxX(i, layer.w), PxY(i, layer.w), cx, cy, r)
            THEN <<rgb[1], rgb[2], rgb[3], 255>>
            ELSE layer.data[i]]]

\* ctx.fillRect(0, 0, w, h) with fillStyle "#ffffff"
FillWhite(w, h) == [i \in 1..(w * h) |-> WhitePx]

\* what a canvas holds after its width/height attribute changed
ClearedData(w, h) == [i \in 1..(w * h) |-> Transparent]

\* putImageData: a fully transparent pixel keeps its colour or, on a
\* premultiplied backing store (premul), loses it
PutImageData(data, premul) ==
    [i \in 1..Len(data) |->
        IF premul /\ data[i][4] = 0 THEN Transparent ELSE data[i]]

RecolorData_IgnoreInvert(data, hexColor, invert) ==
    LET color == hexToRgb(hexColor)
    IN  [i \in 1..Len(data) |->
            LET pixelColor == IF data[i][1] = 255 THEN White ELSE color
            IN  <<pixelColor[1], pixelColor[2], pixelColor[3], data[i][4]>>]

\* the pixel loop of replaceMaskColor
RecolorData(data, hexColor, invert) ==
    LET color == hexToRgb(hexColor)
    IN  [i \in 1..Len(data) |->
            LET pixelColor == IF (data[i][1] = 255) # invert
                              THEN White ELSE color
            IN  <<pixelColor[1], pixelColor[2], pixelColor[3], data[i][4]>>]

\* replaceMaskColor(hexColor, invert) on the mask canvas
replaceMaskColor(layer, hexColor, invert, premul) ==
    [layer EXCEPT
        !.data = PutImageData(RecolorData(layer.data, hexColor, invert), premul)]

\* ----------------------------------------------------------------- layers
BlankCursor(w, h) == [w |-> w, h |-> h, shown |-> FALSE, r |-> 0]

\* clearRect + beginPath + arc(.., r, ..) + fill + stroke on the cursor canvas
Preview(layer, r) == [w |-> layer.w, h |-> layer.h, shown |-> TRUE, r |-> r]

\* a canvas element re-rendered with width = s.x, height = s.y
ResizeCursor_Stale(layer, s) == layer

ResizeBase(layer, s) ==
    IF layer.w = s.x /\ layer.h = s.y THEN layer
    ELSE [w |-> s.x, h |-> s.y, img |-> 0]

ResizeMask(layer, s) ==
    IF layer.w = s.x /\ layer.h = s.y THEN layer
    ELSE [w |-> s.x, h |-> s.y, data |-> ClearedData(s.x, s.y)]

ResizeCursor(layer, s) ==
    IF layer.w = s.x /\ layer.h = s.y THEN layer
    ELSE BlankCursor(s.x, s.y)

\* context.clearRect(0, 0, img.width, img.height); context.drawImage(img, 0, 0)
DrawImage(layer, i) == [layer EXCEPT !.img = i]

InitMask_Unfilled(s) == [w |-> s.x, h |-> s.y, data |-> ClearedData(s.x, s.y)]

\* the mask context effect at mount: fillStyle "#ffffff", fillRect
InitMask(s) == [w |-> s.x, h |-> s.y, data |-> FillWhite(s.x, s.y)]

NoOp ==
    [kind |-> "init", buttons |-> 0, shift |-> FALSE, threw |-> FALSE,
     notified |-> <<>>, prevented |-> FALSE, resized |-> FALSE]

\* ------------------------------------------------------------------- Init
\* The component after mount: contexts obtained, the mask filled white, the
\* recolour effect run once, the load of src started.
Init ==
    /\ size = DefaultSize
    /\ baseLayer = [w |-> DefaultSize.x, h |-> DefaultSize.y, img |-> 0]
    /\ maskColor \in Colors
    /\ maskLayer = replaceMaskColor(InitMask(DefaultSize), maskColor, FALSE, FALSE)
    /\ cursorLayer = BlankCursor(DefaultSize.x, DefaultSize.y)
    /\ cursorSize \in InitialRadii
    /\ src \in Images
    /\ inflight = {src}
    /\ hasObserver \in BOOLEAN
    /\ pinned \in BOOLEAN
    /\ ~hasObserver => pinned      \* nothing to follow without an observer
    /\ painted = {}
    /\ lastLoaded = DefaultSize
    /\ lastOp = NoOp

\* ---------------------------------------------------------------- actions
Pressed_Always(buttons) == buttons >= 0

PaintStyle_IgnoreShift(buttons, shift, color) ==
    IF buttons > 1 THEN hexToRgb(WhiteHex) ELSE hexToRgb(color)

\* if (evt.buttons > 0)
Pressed(buttons) == buttons > 0

\* maskContext.fillStyle = (evt.buttons > 1 || evt.shiftKey) ? "#ffffff" : maskColor
PaintStyle(buttons, shift, color) ==
    IF buttons > 1 \/ shift THEN hexToRgb(WhiteHex) ELSE hexToRgb(color)

\* handleMouseMove
HandleMouseMove(x, y, buttons, shift) ==
    LET op == [NoOp EXCEPT !.kind = "move", !.buttons = buttons, !.shift = shift]
        disc == DiscIdx(maskLayer.w, maskLayer.h, x, y, cursorSize)
    IN  /\ IF cursorSize < 0
           THEN \* cursorContext.arc throws after the clearRect
                /\ cursorLayer' = BlankCursor(cursorLayer.w, cursorLayer.h)
                /\ lastOp' = [op EXCEPT !.threw = TRUE]
                /\ UNCHANGED <<maskLayer, painted>>
           ELSE /\ cursorLayer' = Preview(cursorLayer, cursorSize)
                /\ lastOp' = op
                /\ IF Pressed(buttons)
                   THEN /\ maskLayer' = FillArc(maskLayer, x, y, cursorSize,
                                                PaintStyle(buttons, shift, maskColor))
                        /\ painted' = IF buttons = 1 /\ ~shift
                                      THEN painted \cup disc
                                      ELSE painted \ disc
                   ELSE UNCHANGED <<maskLayer, painted>>
        /\ UNCHANGED <<size, baseLayer, cursorSize, maskColor, src, inflight,
                       hasObserver, pinned, lastLoaded>>

MouseMove ==
    \E x \in 0..(size.x - 1), y \in 0..(size.y - 1), in \in PointerInputs :
        HandleMouseMove(x, y, in[1], in[2])

NewSize_ByDelta(radius, deltaY) == Max(1, radius + deltaY)

\* Math.max(1, cursorSize + (evt.deltaY > 0 ? 1 : -1))
NewSize(radius, deltaY) == Max(1, radius + (IF deltaY > 0 THEN 1 ELSE -1))

Registered_Always(observer) == TRUE

\* if (props.onCursorSizeChange) cnv?.addEventListener("wheel", handleWheel, ..)
Registered(observer) == observer

OwnerRadius_Uncontrolled(isPinned, radius, newSize) == newSize

\* the cursorSize prop of the render that follows props.onCursorSizeChange(newSize):
\* an owner that pins the radius supplies the same value again
OwnerRadius(isPinned, radius, newSize) == IF isPinned THEN radius ELSE newSize

\* handleWheel; without props.onCursorSizeChange no listener is registered
HandleWheel(deltaY) ==
    LET newSize == NewSize(cursorSize, deltaY)
        op == [NoOp EXCEPT !.kind = "wheel"]
    IN  /\ IF ~Registered(hasObserver)
           THEN /\ lastOp' = op
                /\ UNCHANGED <<cursorLayer, cursorSize>>
           ELSE /\ lastOp' = [op EXCEPT !.notified = <<newSize>>,
                                        !.prevented = TRUE]
                /\ cursorLayer' = Preview(cursorLayer, newSize)
                   \* the owner's reaction to the notification
                /\ cursorSize' = OwnerRadius(pinned, cursorSize, newSize)
        /\ UNCHANGED <<size, baseLayer, maskLayer, maskColor, src, inflight,
                       hasObserver, pinned, painted, lastLoaded>>

Wheel ==
    \E d \in Deltas :
        /\ (d > 0 /\ hasObserver /\ ~pinned) => cursorSize < MaxRadius
        /\ HandleWheel(d)

\* img.onload of the image started by the load effect, then the re-render
\* with the new size and the recolour effect (replaceMaskColor depends on
\* size).  batched: the re-render happens after the handler returned
\* (React >= 18) instead of inside setSize.
OnLoad(i, batched, premul) ==
    LET s == ImgSize(i)
        resized == s.x # maskLayer.w \/ s.y # maskLayer.h
    IN  /\ size' = s
        /\ baseLayer' = IF batched
                        THEN ResizeBase(DrawImage(baseLayer, i), s)
                        ELSE DrawImage(ResizeBase(baseLayer, s), i)
        /\ maskLayer' = replaceMaskColor(ResizeMask(maskLayer, s), maskColor,
                                         FALSE, premul)
        /\ cursorLayer' = ResizeCursor(cursorLayer, s)
        /\ inflight' = inflight \ {i}
        /\ painted' = IF resized THEN {} ELSE painted
        /\ lastLoaded' = s
        /\ lastOp' = [NoOp EXCEPT !.kind = "load", !.resized = resized]
        /\ UNCHANGED <<cursorSize, maskColor, src, hasObserver, pinned>>

Load == \E i \in inflight, batched \in BOOLEAN, premul \in BOOLEAN :
            OnLoad(i, batched, premul)

OnLoadError_Clears(i) ==
    /\ inflight' = inflight \ {i}
    /\ lastOp' = [NoOp EXCEPT !.kind = "loadfail"]
    /\ baseLayer' = [baseLayer EXCEPT !.img = 0]
    /\ UNCHANGED <<size, maskLayer, cursorLayer, cursorSize, maskColor,
                   src, hasObserver, pinned, painted, lastLoaded>>

\* the image fails to decode: no onerror handler, onload never fires
OnLoadError(i) ==
    /\ inflight' = inflight \ {i}
    /\ lastOp' = [NoOp EXCEPT !.kind = "loadfail"]
    /\ UNCHANGED <<size, baseLayer, maskLayer, cursorLayer, cursorSize, maskColor,
                   src, hasObserver, pinned, painted, lastLoaded>>

LoadError == \E i \in inflight : OnLoadError(i)

\* the owner changes the src prop: the load effect starts a new Image
\* (at most one load per image is kept in flight)
SetSrc(s) ==
    /\ s # src
    /\ s \notin inflight
    /\ src' = s
    /\ inflight' = inflight \cup {s}
    /\ lastOp' = [NoOp EXCEPT !.kind = "src"]
    /\ UNCHANGED <<size, baseLayer, maskLayer, cursorLayer, cursorSize, maskColor,
                   hasObserver, pinned, painted, lastLoaded>>

ChangeSrc == \E s \in Images : SetSrc(s)

\* the owner changes the maskColor prop: the recolour effect runs
SetMaskColor(c, premul) ==
    /\ c # maskColor
    /\ maskColor' = c
    /\ maskLayer' = replaceMaskColor(maskLayer, c, FALSE, premul)
    /\ lastOp' = [NoOp EXCEPT !.kind = "color"]
    /\ UNCHANGED <<size, baseLayer, cursorLayer, cursorSize, src, inflight,
                   hasObserver, pinned, painted, lastLoaded>>

ChangeMaskColor == \E c \in Colors, premul \in BOOLEAN : SetMaskColor(c, premul)

Next ==
    \/ MouseMove
    \/ Wheel
    \/ Load
    \/ LoadError
    \/ ChangeSrc
    \/ ChangeMaskColor

Spec == Init /\ [][Next]_vars

\* The component while no image completes: pointer, wheel and colour changes.
NextPaint ==
    \/ MouseMove
    \/ Wheel
    \/ ChangeMaskColor

SpecPaint == Init /\ [][NextPaint]_vars

\* a pointer move with no button pressed
Hover == \E x \in 0..(size.x - 1), y \in 0..(size.y - 1) : HandleMouseMove(x, y, 0, FALSE)

\* The component before any paint and before any load completes.
NextIdle ==
    \/ Hover
    \/ Wheel
    \/ ChangeMaskColor
    \/ ChangeSrc
    \/ LoadError

SpecIdle == Init /\ [][NextIdle]_vars

\* ------------------------------------------------------------------ claims
\* the secondary button is among MouseEvent.buttons
Secondary(buttons) == (buttons \div 2) % 2 = 1

\* the pixels of the mask lying in the closed disc of radius r around (cx, cy)
ClaimedDisc(cx, cy, r) ==
    {i \in 1..Len(maskLayer.data) :
        LET dx == PxX(i, maskLayer.w) - cx
            dy == PxY(i, maskLayer.w) - cy
        IN  dx * dx + dy * dy <= r * r}

LayersHave(s) ==
    /\ baseLayer.w = s.x /\ baseLayer.h = s.y
    /\ maskLayer.w = s.x /\ maskLayer.h = s.y
    /\ cursorLayer.w = s.x /\ cursorLayer.h = s.y

\* C1 (resize reset): a completed load of an image whose dimensions differ
\* from the current layer size leaves all three layers at the image's
\* dimensions and every mask pixel white and fully opaque.
C1_ResizeReset ==
    [][\A i \in Images, batched \in BOOLEAN, premul \in BOOLEAN :
          (i \in inflight /\ ImgSize(i) # size /\ OnLoad(i, batched, premul))
          => /\ LayersHave(ImgSize(i))'
             /\ Len(maskLayer'.data) = ImgSize(i).x * ImgSize(i).y
             /\ \A k \in 1..Len(maskLayer'.data) : maskLayer'.data[k] = WhitePx]_vars

\* C2 (recolour after paint): after any sequence of paints and colour
\* changes, every pixel painted with the primary button shows the RGB of the
\* configured mask colour and every other pixel is white.
C2_RecolourAfterPaint ==
    \A i \in 1..Len(maskLayer.data) :
        Rgb(maskLayer.data[i]) = IF i \in painted THEN hexToRgb(maskColor) ELSE White

\* C3 (recolour idempotence): for every mask reachable by painting and every
\* colour C, recolouring twice with C equals recolouring once.
C3_RecolourIdempotent ==
    \A c \in Colors, premul \in BOOLEAN :
        replaceMaskColor(replaceMaskColor(maskLayer, c, FALSE, premul), c, FALSE, premul)
            = replaceMaskColor(maskLayer, c, FALSE, premul)

\* C4 (paint commit): a move with only the primary button held, no shift, at
\* (cx, cy) with brush radius r raises no error, sets every in-bounds pixel of
\* the closed disc to the RGB of the configured colour and leaves every other
\* pixel unchanged.
C4_PaintCommit ==
    [][\A x \in 0..(size.x - 1), y \in 0..(size.y - 1) :
          HandleMouseMove(x, y, 1, FALSE)
          => /\ ~lastOp'.threw
             /\ \A i \in 1..Len(maskLayer.data) :
                   IF i \in ClaimedDisc(x, y, cursorSize)
                   THEN Rgb(maskLayer'.data[i]) = hexToRgb(maskColor)
                   ELSE maskLayer'.data[i] = maskLayer.data[i]]_vars

\* C5 (erase override): in a move with a button pressed and the secondary
\* button or shift held, every pixel the move writes becomes opaque white,
\* whatever the configured colour; with a radius >= 1 these are the pixels of
\* the brush disc.
C5_EraseOverride ==
    [][\A x \in 0..(size.x - 1), y \in 0..(size.y - 1), in \in PointerInputs :
          (in[1] > 0 /\ (Secondary(in[1]) \/ in[2]) /\ HandleMouseMove(x, y, in[1], in[2]))
          => /\ \A i \in 1..Len(maskLayer.data) :
                   maskLayer'.data[i] # maskLayer.data[i] => maskLayer'.data[i] = WhitePx
             /\ cursorSize >= 1 =>
                   \A i \in ClaimedDisc(x, y, cursorSize) : maskLayer'.data[i] = WhitePx]_vars

\* an erasing move (secondary button or shift) with a real brush has happened
\* while a non-white colour, respectively white, is configured, and part of
\* the mask is white and opaque
C5_Witness ==
    /\ lastOp.kind = "move" /\ lastOp.buttons > 0
    /\ Secondary(lastOp.buttons) \/ lastOp.shift
    /\ cursorSize >= 1
    /\ maskColor = DefaultMaskColor
    /\ \E i \in 1..Len(maskLayer.data) : maskLayer.data[i] = WhitePx
    /\ \E i \in 1..Len(maskLayer.data) : Rgb(maskLayer.data[i]) = hexToRgb(DefaultMaskColor)

\* C6 (paint colour otherwise): in a move with a button pressed and neither
\* the secondary button nor shift held, the pixels of the brush disc get the
\* RGB of the configured colour.
C6_PaintColourOtherwise ==
    [][\A x \in 0..(size.x - 1), y \in 0..(size.y - 1), in \in PointerInputs :
          (in[1] > 0 /\ ~Secondary(in[1]) /\ ~in[2] /\ cursorSize >= 1
             /\ HandleMouseMove(x, y, in[1], in[2]))
          => \A i \in ClaimedDisc(x, y, cursorSize) :
                Rgb(maskLayer'.data[i]) = hexToRgb(maskColor)]_vars

\* C7 (radius lower bound): the radius a move draws and commits with, and the
\* radius of every preview on the cursor layer, is at least 1.
C7_RadiusLowerBound ==
    /\ lastOp.kind = "move" => cursorSize >= 1
    /\ cursorLayer.shown => cursorLayer.r >= 1

\* C8 (scroll rule): with an observer registered, a scroll with delta d at
\* radius r notifies exactly once, with r + 1 for d > 0 and r - 1 otherwise,
\* raised to 1 when that is less than 1, whatever the magnitude of d.
C8_ScrollRule ==
    [][\A d \in Deltas :
          (hasObserver /\ HandleWheel(d))
          => /\ Len(lastOp'.notified) = 1
             /\ LET stepped == IF d > 0 THEN cursorSize + 1 ELSE cursorSize - 1
                IN  lastOp'.notified[1] = IF stepped < 1 THEN 1 ELSE stepped]_vars

\* a scroll at radius 1 held by the owner has notified 1: the delta was <= 0
C8_Witness ==
    /\ hasObserver /\ pinned /\ cursorSize = 1
    /\ lastOp.kind = "wheel" /\ lastOp.notified = <<1>>

C10_MaskFrame ==
    [][/\ maskLayer' # maskLayer
          => \/ lastOp'.kind \in {"load", "color"}
             \/ lastOp'.kind = "move" /\ lastOp'.buttons > 0
       /\ lastOp'.kind = "wheel" => maskLayer' = maskLayer
       /\ (lastOp'.kind = "move" /\ lastOp'.buttons = 0) => maskLayer' = maskLayer]_vars

\* a hover with a real brush over a mask that holds paint
C10_Witness ==
    /\ lastOp.kind = "move" /\ lastOp.buttons = 0
    /\ cursorSize >= 1
    /\ \E i \in 1..Len(maskLayer.data) :
          maskLayer.data[i][4] = 255 /\ Rgb(maskLayer.data[i]) # White

\* C11 (wheel opt-in): without an observer a scroll changes neither the
\* radius nor the cursor layer nor the mask, notifies nobody and does not
\* suppress the default; with an observer every scroll suppresses it.
C11_WheelOptIn ==
    [][lastOp'.kind = "wheel"
       => IF hasObserver
          THEN lastOp'.prevented
          ELSE /\ cursorSize' = cursorSize
               /\ cursorLayer' = cursorLayer
               /\ maskLayer' = maskLayer
               /\ lastOp'.notified = <<>>
               /\ ~lastOp'.prevented]_vars

\* a scroll without observer over a shown preview and a painted mask
C11_Witness ==
    /\ ~hasObserver
    /\ lastOp.kind = "wheel"
    /\ cursorLayer.shown /\ cursorLayer.r = cursorSize /\ cursorSize >= 1
    /\ \E i \in 1..Len(maskLayer.data) : Rgb(maskLayer.data[i]) # White

\* C12 (initial mask): after initialisation, the start-up recolour included,
\* and as long as nothing was painted and no load completed, the mask has the
\* default dimensions and every pixel is white and fully opaque.
C12_InitialMask ==
    /\ maskLayer.w = DefaultSize.x /\ maskLayer.h = DefaultSize.y
    /\ Len(maskLayer.data) = DefaultSize.x * DefaultSize.y
    /\ \A i \in 1..Len(maskLayer.data) : maskLayer.data[i] = <<255, 255, 255, 255>>

\* the initialised component, hovered over, after a recolour pass to a
\* non-white colour ran on the never-painted mask
C12_Witness ==
    /\ lastOp.kind = "color"
    /\ maskColor = DefaultMaskColor
    /\ cursorLayer.shown
    /\ maskLayer.data[1] = WhitePx

\* C13 (load failure): a failed load leaves the layer dimensions, the base
\* raster, the mask raster, the cursor layer and the brush radius as they
\* were, and a load that completes right after it is handled as usual.
C13_LoadFailure ==
    [][/\ lastOp'.kind = "loadfail"
          => /\ size' = size
             /\ baseLayer' = baseLayer
             /\ maskLayer' = maskLayer
             /\ cursorLayer' = cursorLayer
             /\ cursorSize' = cursorSize
       /\ (lastOp.kind = "loadfail" /\ lastOp'.kind = "load")
          => /\ LayersHave(lastLoaded)'
             /\ size' = lastLoaded'
             /\ Cardinality(inflight') = Cardinality(inflight) - 1]_vars

\* a load failed after an earlier one had completed with other dimensions and
\* the pointer had moved; a further load is still in flight
C13_Witness ==
    /\ lastOp.kind = "loadfail"
    /\ baseLayer.img # 0
    /\ size # DefaultSize
    /\ cursorLayer.shown
    /\ inflight # {}

\* C14 (load resets the mask): a completed load of an image that has the
\* dimensions the layers already have leaves every mask pixel white and fully
\* opaque, so that no paint survives into the new image.
C14_SameSizeLoadResets ==
    [][\A i \in Images, batched \in BOOLEAN, premul \in BOOLEAN :
          (i \in inflight /\ ImgSize(i) = size /\ OnLoad(i, batched, premul))
          => \A k \in 1..Len(maskLayer'.data) : maskLayer'.data[k] = WhitePx]_vars

\* C15 (load ordering): when a load has been handled, all three layers have
\* the dimensions of the loaded image and the base layer holds that image.
C15_LoadOrdering ==
    [][\A i \in Images, batched \in BOOLEAN, premul \in BOOLEAN :
          (i \in inflight /\ OnLoad(i, batched, premul))
          => /\ LayersHave(ImgSize(i))'
             /\ baseLayer'.img = i]_vars

\* Image loading alone: the source reference changes and loads complete; no
\* load fails, so an empty inflight set means that every requested load has
\* completed.
NextLoad ==
    \/ ChangeSrc
    \/ Load

SpecLoad == Init /\ [][NextLoad]_vars

\* C16 (second load supersedes the first): once every requested load has
\* completed, the layer dimensions are those of the current source image.
C16_LaterLoadWins ==
    (inflight = {} /\ lastOp.kind = "load")
    => (size = ImgSize(src) /\ LayersHave(ImgSize(src)))

\* ------------------------------------------------- replaceMaskColor alone
\* pixel values a mask buffer can hold: unpainted, painted in the default
\* colour, painted in a colour whose red channel is 255, cleared by a resize,
\* and white with alpha 0
MaskPixels ==
    {WhitePx, <<35, 39, 45, 255>>, <<255, 0, 0, 255>>, Transparent,
     <<255, 255, 255, 0>>}

\* replaceMaskColor is handed an arbitrary buffer of the default dimensions
InitRecolor ==
    /\ size = DefaultSize
    /\ baseLayer = [w |-> DefaultSize.x, h |-> DefaultSize.y, img |-> 0]
    /\ maskColor \in Colors
    /\ maskLayer \in [w : {DefaultSize.x}, h : {DefaultSize.y},
                      data : [1..(DefaultSize.x * DefaultSize.y) -> MaskPixels]]
    /\ cursorLayer = BlankCursor(DefaultSize.x, DefaultSize.y)
    /\ cursorSize = 1
    /\ src = 1
    /\ inflight = {}
    /\ hasObserver = FALSE
    /\ pinned = TRUE
    /\ painted = {}
    /\ lastLoaded = DefaultSize
    /\ lastOp = NoOp

\* one run of the pixel loop of replaceMaskColor(hexColor, invert) over the
\* buffer read with getImageData
RecolorPass(hexColor, invert) ==
    /\ maskLayer' = [maskLayer EXCEPT
                        !.data = RecolorData(maskLayer.data, hexColor, invert)]
    /\ maskColor' = hexColor
    /\ lastOp' = [NoOp EXCEPT !.kind = IF invert THEN "invert" ELSE "recolor"]
    /\ UNCHANGED <<size, baseLayer, cursorLayer, cursorSize, src, inflight,
                   hasObserver, pinned, painted, lastLoaded>>

Recolor == \E c \in Colors, invert \in BOOLEAN : RecolorPass(c, invert)

SpecRecolor == InitRecolor /\ [][Recolor]_vars

C18_DoubleInvert ==
    [][\A c \in Colors :
          RecolorPass(c, TRUE)
          => LET twice == RecolorData(maskLayer'.data, c, TRUE)
             IN  \A i \in 1..Len(maskLayer.data) :
                    (twice[i][1] = 255) = (maskLayer.data[i][1] = 255)]_vars

\* C19 (controlled radius): while the owner pins the radius, no step changes
\* the radius; a scroll step notifies the owner and leaves the mask alone; and
\* every move that draws previews the pinned radius and writes, when a button
\* is pressed, the brush disc of the pinned radius and no pixel outside it.
C19_PinnedRadius ==
    [][pinned =>
        /\ cursorSize' = cursorSize
        /\ lastOp'.kind = "wheel" =>
              /\ maskLayer' = maskLayer
              /\ hasObserver => lastOp'.notified = <<NewSize(cursorSize, 1)>>
                                \/ lastOp'.notified = <<NewSize(cursorSize, -1)>>
        /\ \A x \in 0..(size.x - 1), y \in 0..(size.y - 1), in \in PointerInputs :
              (HandleMouseMove(x, y, in[1], in[2]) /\ ~lastOp'.threw)
              => /\ cursorLayer'.shown /\ cursorLayer'.r = cursorSize
                 /\ \A i \in 1..Len(maskLayer.data) :
                       IF in[1] > 0 /\ cursorSize >= 1
                          /\ i \in ClaimedDisc(x, y, cursorSize)
                       THEN /\ maskLayer'.data[i][4] = 255
                            /\ Rgb(maskLayer'.data[i]) \in {White, hexToRgb(maskColor)}
                       ELSE maskLayer'.data[i] = maskLayer.data[i]]_vars

\* a scroll was handled under a pinned radius of 1 after paint had been
\* committed: the owner was told 2 and the radius is still 1
C19_Witness ==
    /\ pinned /\ hasObserver
    /\ lastOp.kind = "wheel" /\ lastOp.notified = <<2>>
    /\ cursorSize = 1
    /\ painted # {}

====
